---- MODULE Spec2Model ----
(***************************************************************************)
(* A model of the dlt Qdrant destination client                            *)
(* (dlt/destinations/impl/qdrant/qdrant_client.py) and of the pipeline     *)
(* helpers (dlt/pipeline/helpers.py): the state synchronizer, the schema   *)
(* synchronizer, the load job, the drop command and the retry classifier.  *)
(* Each component has its own specification over its own variables; the    *)
(* variables of the other components stay as Init left them.               *)
(***************************************************************************)
EXTENDS Integers, Sequences, FiniteSets, TLC

VARIABLES
    \* ---- Qdrant destination: state and loads collections, the clock
    state_points,   \* the pipeline-state collection, enumerated by ascending id
    loads_points,   \* the loads collection: a set of points [id, load_id]
    clock,          \* precise_time() in microseconds
    \* ---- one call of QdrantClient.get_stored_state
    gss_pc,         \* "idle" | "scan" (top of the while loop) | "done" (returned)
    gss_pipeline,   \* the pipeline_name argument
    gss_offset,     \* the local variable offset
    gss_result,     \* the value returned
    gss_scrolls,    \* number of db_client.scroll calls answered in this call
    gss_fault,      \* the destination read that failed in this call, or "none"
    \* ---- Qdrant destination: collections and the version collection
    collections,    \* the qualified names of the collections that exist
    version_points, \* the version collection: points [id, version_hash, schema_name]
    schema_tables,  \* self.schema.tables: the table names of the client's schema
    sync_last,      \* what the last update_stored_schema call did
    gs_result,      \* what get_stored_schema returned, until its caller has it
    \* ---- one data collection and the load jobs that upload into it
    job_table,      \* the table schema the jobs are started with
    coll_points,    \* the collection: a set of points [id, payload]
    uuid4_calls,    \* number of uuid.uuid4() calls made so far
    job_last,       \* the LoadQdrantJob just constructed, until it is destroyed
    job_raised,     \* the exception that left LoadQdrantJob.__init__, if one did
    \* ---- the pipeline and one DropCommand
    p_schema,       \* the tables of the pipeline's saved schema
    p_state,        \* the pipeline state: resource states, state paths, extract marker
    p_pending,      \* pipeline.has_pending_data
    p_package,      \* the load package state of the pending drop package
    cmd,            \* the DropCommand object
    drop_calls,     \* the calls __call__ has made on the pipeline, in order
    drop_outcome,   \* how __call__ ended
    drop_pre,       \* the pipeline as it was when __call__ was entered
    drop_prev,      \* the drop that succeeded last on the pipeline as it is
    \* ---- the retry predicate returned by retry_load
    retry_steps,    \* retry_on_pipeline_steps, captured by the closure
    retry_ex,       \* the exception given: ex, ex.__context__, ... outermost first
    retry_result,   \* what _retry_load returned
    \* ---- two load jobs that upload into one collection at the same time
    conc,           \* the two jobs: file, point ids, next record to upsert
    \* ---- the dataset of one client: initialize_storage
    storage,        \* dataset name, the collections that exist, those with points
    init_last       \* what the last initialize_storage call was given and found

stateVars == <<state_points, loads_points>>
gssVars == <<gss_pc, gss_pipeline, gss_offset, gss_result, gss_scrolls, gss_fault>>
schemaVars == <<collections, version_points, schema_tables, sync_last, gs_result>>

jobVars == <<job_table, coll_points, uuid4_calls, job_last, job_raised>>

pipelineVars == <<p_schema, p_state, p_pending, p_package>>
dropVars == <<cmd, drop_calls, drop_outcome, drop_pre, drop_prev>>

retryVars == <<retry_steps, retry_ex, retry_result>>

concVars == <<conc>>

storVars == <<storage, init_last>>

vars == <<clock, stateVars, gssVars, schemaVars, jobVars, pipelineVars, dropVars,
          retryVars, concVars, storVars>>

\* what the actions of one component leave alone
StateFrame == <<schemaVars, jobVars, pipelineVars, dropVars, retryVars, concVars,
                storVars>>
SchemaFrame == <<stateVars, gssVars, jobVars, pipelineVars, dropVars, retryVars,
                 concVars, storVars>>
JobFrame == <<clock, stateVars, gssVars, schemaVars, pipelineVars, dropVars, retryVars,
              concVars, storVars>>
DropFrame == <<clock, stateVars, gssVars, schemaVars, jobVars, retryVars, concVars,
               storVars>>
RetryFrame == <<clock, stateVars, gssVars, schemaVars, jobVars, pipelineVars, dropVars,
                concVars, storVars>>
ConcFrame == <<clock, stateVars, gssVars, schemaVars, pipelineVars, dropVars, retryVars,
               storVars>>
StorFrame == <<clock, stateVars, gssVars, schemaVars, jobVars, pipelineVars, dropVars,
               retryVars, concVars>>

----------------------------------------------------------------------------
\* Bounds of the model

MaxLoads == 2        \* load ids 1..MaxLoads
MaxClock == 1        \* the clock runs over 0..MaxClock
MaxScrolls == 2      \* scroll calls followed within one get_stored_state call
MaxInserts == 3      \* version records inserted into the version collection

Pipelines == {"p1", "p2"}
LoadIds == 1..MaxLoads

----------------------------------------------------------------------------
\* The destination gateway (qdrant_client) as the client code uses it

\* limit = 100 in get_stored_state
limit == 100

\* offset = None: scroll from the first point
NoOffset == 0

\* 2**64 in _create_point_no_vector, scaled to the 32-bit integers of TLC:
\* only the order of the identifiers matters
IdBase == 1000

\* the value get_stored_state returns for None
NoState == [found |-> FALSE]

\* no call of get_stored_state is running
GssIdle ==
    /\ gss_pc = "idle"
    /\ gss_pipeline = "p1"
    /\ gss_offset = NoOffset
    /\ gss_result = NoState
    /\ gss_scrolls = 0
    /\ gss_fault = "none"

\* db_client.scroll(collection, scroll_filter, limit, offset): the points with
\* id >= offset that match the filter, by ascending id; at most lim of them are
\* returned and the id of the next one, if any, is the next page offset
ScrollFrom(points, pipeline_name, offset) ==
    LET Match(pt) == /\ pt.pipeline_name = pipeline_name
                     /\ (offset = NoOffset \/ pt.id >= offset)
    IN  SelectSeq(points, Match)

ScrollRecords(points, pipeline_name, lim, offset) ==
    LET matching == ScrollFrom(points, pipeline_name, offset)
    IN  IF Len(matching) <= lim THEN matching ELSE SubSeq(matching, 1, lim)

ScrollNextOffset(points, pipeline_name, lim, offset) ==
    LET matching == ScrollFrom(points, pipeline_name, offset)
    IN  IF Len(matching) <= lim THEN NoOffset ELSE matching[lim + 1].id

\* db_client.count(collection, exact=True, count_filter = load_id match)
CountLoads(points, load_id) ==
    Cardinality({pt \in points : pt.load_id = load_id})

\* an insert that keeps a point with the same id next to the new one
InsertPoint(points, pt) ==
    points \cup {pt}

\* db_client.upsert of one point: a point with the same id is replaced
UpsertPoint(points, pt) ==
    {q \in points : q.id # pt.id} \cup {pt}

\* upsert into a collection kept in enumeration order (ascending id)
UpsertOrdered(points, pt) ==
    LET Below(q) == q.id < pt.id
        Above(q) == q.id > pt.id
    IN  SelectSeq(points, Below) \o <<pt>> \o SelectSeq(points, Above)

PointIds(points) == {points[i].id : i \in 1..Len(points)}

----------------------------------------------------------------------------
\* QdrantClient._create_point_no_vector and complete_load

\* id_ = 2**64 - int(precise_time() * 10**6)
CreatePointNoVector(points, obj, now) ==
    UpsertPoint(points, [id |-> IdBase - now] @@ obj)

\* complete_load(load_id): one record in the loads collection, once per load package
CompleteLoad(load_id) ==
    /\ gss_pc # "done"
    /\ CountLoads(loads_points, load_id) = 0
    /\ loads_points' = CreatePointNoVector(loads_points, [load_id |-> load_id], clock)
    /\ UNCHANGED <<state_points, clock, gssVars, StateFrame>>

\* precise_time() advances
Tick ==
    /\ clock < MaxClock
    /\ clock' = clock + 1
    /\ UNCHANGED <<stateVars, gssVars, schemaVars, jobVars, pipelineVars, dropVars,
                   retryVars, concVars, storVars>>

----------------------------------------------------------------------------
\* A load job writes a pipeline state record for a load package that has not
\* completed yet. The record's identity is derived from its unique _dlt_id
\* column, so it is a new identity unrelated to the time of the write. The
\* field written is the position of the record in the order of the writes.

\* a 100-record page of state records left by crashed loads of pipeline p1,
\* with identities 2..101; a new record's identity is 1, below the page, or
\* 102, above it
BulkOrphans ==
    [i \in 1..limit |->
        [id |-> 1 + i, pipeline_name |-> "p1", load_id |-> 0, written |-> i]]

NewStateIds ==
    {1, limit + 2}

WriteState(pipeline_name, load_id) ==
    /\ gss_pc # "done"
    /\ CountLoads(loads_points, load_id) = 0
    /\ \E id \in NewStateIds \ PointIds(state_points) :
         state_points' = UpsertOrdered(state_points,
             [id |-> id, pipeline_name |-> pipeline_name, load_id |-> load_id,
              written |-> Len(state_points) + 1])
    /\ UNCHANGED <<loads_points, clock, gssVars, StateFrame>>

----------------------------------------------------------------------------
\* QdrantClient.get_stored_state, one action per iteration of its while loop

GssStart(pipeline_name) ==
    /\ gss_pc = "idle"
    /\ gss_pc' = "scan"
    /\ gss_pipeline' = pipeline_name
    /\ gss_offset' = NoOffset
    /\ gss_result' = NoState
    /\ gss_scrolls' = 0
    /\ gss_fault' = "none"
    /\ UNCHANGED <<clock, stateVars, StateFrame>>

\* a scan that takes every record for durable, whatever the loads collection holds
DurableRecordsNoFence(records) ==
    records

\* the records of the page, in page order, whose load_id has a load record
DurableRecords(records) ==
    LET Durable(pt) == CountLoads(loads_points, pt.load_id) > 0
    IN  SelectSeq(records, Durable)

\* a handler that lets the failure of a count through to the caller
ExceptScrollOnly(fault) ==
    IF fault = "scroll" THEN [pc |-> "done", result |-> NoState]
    ELSE [pc |-> "raised", result |-> NoState]

\* except Exception: return None
ExceptException(fault) ==
    [pc |-> "done", result |-> NoState]

\* fault: "scroll" (the scroll raises), "count" (a count raises before a
\* record of the page was found durable), "none"
GssIteration(fault) ==
    LET records == ScrollRecords(state_points, gss_pipeline, limit, gss_offset)
        next == ScrollNextOffset(state_points, gss_pipeline, limit, gss_offset)
        durable == DurableRecords(records)
    IN  IF fault = "scroll"
        THEN /\ gss_pc' = ExceptException(fault).pc
             /\ gss_result' = ExceptException(fault).result
             /\ gss_fault' = fault
             /\ UNCHANGED <<gss_offset, gss_scrolls>>
        ELSE /\ gss_scrolls' = gss_scrolls + 1
             /\ IF Len(records) = 0
                THEN \* if len(state_records) == 0: return None
                     /\ gss_pc' = "done"
                     /\ gss_result' = NoState
                     /\ gss_offset' = next
                     /\ gss_fault' = "none"
                ELSE IF fault = "count"
                THEN /\ gss_pc' = ExceptException(fault).pc
                     /\ gss_result' = ExceptException(fault).result
                     /\ gss_offset' = next
                     /\ gss_fault' = fault
                ELSE IF Len(durable) > 0
                THEN \* if load_records.count > 0: return StateInfo(**state)
                     /\ gss_pc' = "done"
                     /\ gss_result' = [found |-> TRUE, state |-> Head(durable)]
                     /\ gss_offset' = next
                     /\ gss_fault' = "none"
                ELSE \* the for loop ends: back to while True with the new offset
                     /\ gss_pc' = "scan"
                     /\ gss_result' = gss_result
                     /\ gss_offset' = next
                     /\ gss_fault' = "none"

GssPage ==
    /\ gss_pc = "scan"
    /\ gss_scrolls < MaxScrolls
    /\ \E fault \in {"none", "scroll", "count"} : GssIteration(fault)
    /\ UNCHANGED <<clock, stateVars, gss_pipeline, StateFrame>>

\* the caller takes the returned value and the call's locals are gone
GssReturn ==
    /\ gss_pc = "done"
    /\ gss_pc' = "idle"
    /\ gss_pipeline' = "p1"
    /\ gss_offset' = NoOffset
    /\ gss_result' = NoState
    /\ gss_scrolls' = 0
    /\ gss_fault' = "none"
    /\ UNCHANGED <<clock, stateVars, StateFrame>>

----------------------------------------------------------------------------
\* What each component's variables are while another component runs

StateIdle ==
    /\ state_points = <<>>
    /\ loads_points = {}
    /\ GssIdle

SchemaIdle ==
    /\ collections = {}
    /\ version_points = {}
    /\ schema_tables = {}
    /\ sync_last = [called |-> FALSE]
    /\ gs_result = [called |-> FALSE]

JobIdle ==
    /\ job_table = [write_disposition |-> "append", columns |-> <<>>]
    /\ coll_points = {}
    /\ uuid4_calls = 0
    /\ job_last = [state |-> "none"]
    /\ job_raised = [raised |-> FALSE]

DropIdle ==
    /\ p_schema = {}
    /\ p_state = [resources |-> {}, paths |-> {}, force_extract |-> FALSE]
    /\ p_pending = FALSE
    /\ p_package = [exists |-> FALSE]
    /\ cmd = [built |-> FALSE]
    /\ drop_calls = <<>>
    /\ drop_outcome = "none"
    /\ drop_pre = [entered |-> FALSE]
    /\ drop_prev = [done |-> FALSE]

RetryIdle ==
    /\ retry_steps = {}
    /\ retry_ex = <<>>
    /\ retry_result = [called |-> FALSE]

ConcIdle ==
    conc = [started |-> FALSE]

StorIdle ==
    /\ storage = [dataset_name |-> <<>>, exists |-> {}, nonempty |-> {}]
    /\ init_last = [called |-> FALSE]

----------------------------------------------------------------------------
\* The state synchronizer

InitState ==
    /\ state_points \in {<<>>, BulkOrphans}
    /\ loads_points = {}
    /\ clock = 0
    /\ GssIdle
    /\ SchemaIdle
    /\ JobIdle
    /\ DropIdle
    /\ RetryIdle
    /\ ConcIdle
    /\ StorIdle

NextState ==
    \/ \E p \in Pipelines, l \in LoadIds : WriteState(p, l)
    \/ \E l \in LoadIds : CompleteLoad(l)
    \/ Tick
    \/ \E p \in Pipelines : GssStart(p)
    \/ GssPage
    \/ GssReturn

SpecState == InitState /\ [][NextState]_vars

\* C1: whenever get_stored_state returns a state record, it is a record of the
\* state collection for the pipeline asked for and its load_id has a record in
\* the loads collection; otherwise it returns "no prior state"
C1_NoDirtyRead ==
    (gss_pc = "done" /\ gss_result.found) =>
        /\ CountLoads(loads_points, gss_result.state.load_id) > 0
        /\ gss_result.state.pipeline_name = gss_pipeline
        /\ \E i \in 1..Len(state_points) : state_points[i] = gss_result.state

\* C1 witness: a state was returned although a state record of the same
\* pipeline, written by a load that never completed, comes first in the scan
C1_Witness ==
    /\ gss_pc = "done"
    /\ gss_result.found
    /\ \E i \in 1..Len(state_points) :
         /\ state_points[i].pipeline_name = gss_pipeline
         /\ state_points[i].id < gss_result.state.id
         /\ state_points[i].load_id \in LoadIds
         /\ CountLoads(loads_points, state_points[i].load_id) = 0

\* the durable state records of a pipeline: those whose load has a load record
DurableStatesOf(pipeline_name) ==
    {state_points[i] : i \in {j \in 1..Len(state_points) :
        /\ state_points[j].pipeline_name = pipeline_name
        /\ CountLoads(loads_points, state_points[j].load_id) > 0}}

\* C11: a state returned by get_stored_state is the most recent durable state
\* of the pipeline: no state record of that pipeline whose load has a load
\* record was written after it
C11_MostRecentDurableState ==
    (gss_pc = "done" /\ gss_result.found) =>
        \A pt \in DurableStatesOf(gss_pipeline) :
            pt.written <= gss_result.state.written

\* one iteration of the loop of get_stored_state has run
GssStepTaken ==
    gss_pc = "scan" /\ (gss_pc' # "scan" \/ gss_scrolls' # gss_scrolls)

\* C22: an iteration of get_stored_state in which the scroll or a count fails,
\* on the first page or on a later one, ends the call with "no prior state"
\* and raises nothing; no iteration writes to the state or loads collection
C22_ReadFailureIsNoPriorState ==
    [][GssStepTaken =>
          /\ UNCHANGED <<state_points, loads_points>>
          /\ gss_fault' # "none" => (gss_pc' = "done" /\ gss_result' = NoState)]_vars

\* C22 witness: the call has returned "no prior state" after a count failed on
\* the second page, the first page having been read with no durable record,
\* while a durable state of the pipeline is in the collection
C22_Witness ==
    /\ gss_pc = "done"
    /\ gss_fault = "count"
    /\ gss_scrolls = 2
    /\ gss_result = NoState
    /\ DurableStatesOf(gss_pipeline) # {}

\* C2: once a scroll has answered with no next offset and no record of the
\* page was durable, the scan is exhausted and get_stored_state has returned:
\* it is not back at the top of its loop, about to scroll from the start again
C2_ExhaustedScanReturns ==
    ~(gss_pc = "scan" /\ gss_scrolls >= 1 /\ gss_offset = NoOffset)

----------------------------------------------------------------------------
\* The schema synchronizer: QdrantClient.update_stored_schema

\* the dlt tables and the data tables a schema may hold
DltTables == {"_dlt_version", "_dlt_loads"}
DataTables == {"users"}
SchemaName == "s1"

\* _make_qualified_collection_name: f"{dataset_name}{dataset_separator}{table_name}"
MakeQualifiedCollectionName(table_name) ==
    <<"dataset", "_", table_name>>

VersionCollection == MakeQualifiedCollectionName("_dlt_version")

\* self.schema.stored_version_hash: the content hash of the schema's structure
StoredVersionHash(tables) ==
    [sha_of |-> tables]

\* the version records that carry a hash
RecordsWithHash(schema_hash) ==
    {pt \in version_points : pt.version_hash = schema_hash}

\* a lookup that lets the failure of the scroll through to its caller
GetStoredSchemaByHashStrict(schema_hash, fault) ==
    IF fault = "lookup"
    THEN [raised |-> TRUE]
    ELSE IF VersionCollection \notin collections \/ RecordsWithHash(schema_hash) = {}
    THEN [found |-> FALSE]
    ELSE [found |-> TRUE]

\* get_stored_schema_by_hash: scroll the version collection for the hash with
\* limit 1 and take response[0][0]; any exception (the collection is missing,
\* the response is empty, the request failed) gives None
GetStoredSchemaByHash(schema_hash, fault) ==
    IF fault = "lookup"
    THEN [found |-> FALSE]
    ELSE IF VersionCollection \notin collections
    THEN [found |-> FALSE]
    ELSE LET matching == RecordsWithHash(schema_hash)
         IN  IF matching = {}
             THEN [found |-> FALSE]
             ELSE [found |-> TRUE,
                   record |-> CHOOSE pt \in matching :
                                  \A q \in matching : pt.id <= q.id]

\* a scope that takes every table of the schema whatever only_tables names
TablesInScopeWholeSchema(only_tables) ==
    schema_tables

\* for table_name in only_tables or self.schema.tables
TablesInScope(only_tables) ==
    IF only_tables = {} THEN schema_tables ELSE only_tables

\* the tables of the scope for which _collection_exists answers False
MissingTables(only_tables) ==
    {t \in TablesInScope(only_tables) : MakeQualifiedCollectionName(t) \notin collections}

\* the position of the newest version record in the order of the insertions
LastInserted(points) ==
    IF points = {} THEN 0
    ELSE CHOOSE n \in {pt.inserted : pt \in points} :
             \A pt \in points : pt.inserted <= n

\* the schema and the destination as a call of update_stored_schema finds them
SyncPre ==
    [tables |-> schema_tables, collections |-> collections,
     version_points |-> version_points]

\* _update_schema_in_storage: one version record for the schema, through
\* _create_point_no_vector; the upsert raises when the version collection is missing
UpdateSchemaInStorage(only_tables, had_record, creates, fault) ==
    IF VersionCollection \in collections'
    THEN /\ version_points' = CreatePointNoVector(version_points,
                [version_hash |-> StoredVersionHash(schema_tables),
                 schema_name |-> SchemaName,
                 inserted |-> LastInserted(version_points) + 1], clock)
         /\ sync_last' = [called |-> TRUE, only_tables |-> only_tables,
                          had_record |-> had_record, creates |-> creates,
                          writes |-> 1, raised |-> FALSE,
                          found |-> FALSE, fault |-> fault, pre |-> SyncPre]
    ELSE /\ version_points' = version_points
         /\ sync_last' = [called |-> TRUE, only_tables |-> only_tables,
                          had_record |-> had_record, creates |-> creates,
                          writes |-> 0, raised |-> TRUE,
                          found |-> FALSE, fault |-> fault, pre |-> SyncPre]

\* _execute_schema_update: create the missing collections of the scope, then
\* write the version record. With fault "create" one of the creations raises
\* after the collections in `created` were made.
ExecuteSchemaUpdate(only_tables, had_record, fault) ==
    LET missing == MissingTables(only_tables)
    IN  IF fault = "create" /\ missing # {}
        THEN \E created \in SUBSET missing :
               /\ created # missing
               /\ collections' = collections \cup
                      {MakeQualifiedCollectionName(t) : t \in created}
               /\ version_points' = version_points
               /\ sync_last' = [called |-> TRUE, only_tables |-> only_tables,
                                had_record |-> had_record, creates |-> created,
                                writes |-> 0, raised |-> TRUE,
                                found |-> FALSE, fault |-> fault, pre |-> SyncPre]
        ELSE /\ collections' = collections \cup
                      {MakeQualifiedCollectionName(t) : t \in missing}
             /\ UpdateSchemaInStorage(only_tables, had_record, missing, fault)

\* update_stored_schema(only_tables); fault: "none", "lookup" (the scroll of the
\* lookup raises), "create" (a create_collection raises)
UpdateStoredSchema(only_tables, fault) ==
    LET schema_info == GetStoredSchemaByHash(StoredVersionHash(schema_tables), fault)
        had_record == RecordsWithHash(StoredVersionHash(schema_tables)) # {}
    IN  /\ ~gs_result.called
        /\ ~sync_last.called
        /\ LastInserted(version_points) < MaxInserts
        /\ IF ~schema_info.found
           THEN ExecuteSchemaUpdate(only_tables, had_record, fault)
           ELSE \* found in storage, no upgrade required
                /\ sync_last' = [called |-> TRUE, only_tables |-> only_tables,
                                 had_record |-> had_record, creates |-> {},
                                 writes |-> 0, raised |-> FALSE,
                                 found |-> TRUE, fault |-> fault, pre |-> SyncPre]
                /\ UNCHANGED <<collections, version_points>>
        /\ UNCHANGED <<clock, schema_tables, gs_result, SchemaFrame>>

\* the pipeline's schema gains or loses data tables between two synchronizations
\* update_stored_schema is back at its caller
UpdateStoredSchemaReturn ==
    /\ sync_last.called
    /\ sync_last' = [called |-> FALSE]
    /\ UNCHANGED <<clock, collections, version_points, schema_tables, gs_result,
                   SchemaFrame>>

SchemaChange(data_tables) ==
    /\ ~gs_result.called
    /\ ~sync_last.called
    /\ schema_tables # DltTables \cup data_tables
    /\ schema_tables' = DltTables \cup data_tables
    /\ UNCHANGED <<clock, collections, version_points, sync_last, gs_result, SchemaFrame>>

\* precise_time() is the wall clock: it may be set back
ClockStepsBack ==
    /\ ~gs_result.called
    /\ ~sync_last.called
    /\ \E now \in 0..(clock - 1) : clock' = now
    /\ UNCHANGED <<schemaVars, SchemaFrame>>

\* another schema of the same dataset is stored: _update_schema_in_storage by
\* a client of schema s2
OtherSchemaName == "s2"

OtherSchemaStored ==
    /\ ~gs_result.called
    /\ ~sync_last.called
    /\ VersionCollection \in collections
    /\ LastInserted(version_points) < MaxInserts
    /\ version_points' = CreatePointNoVector(version_points,
           [version_hash |-> StoredVersionHash({OtherSchemaName}),
            schema_name |-> OtherSchemaName,
            inserted |-> LastInserted(version_points) + 1], clock)
    /\ UNCHANGED <<clock, collections, schema_tables, sync_last, gs_result, SchemaFrame>>

\* the version records of a schema name
RecordsOfSchema(schema_name) ==
    {pt \in version_points : pt.schema_name = schema_name}

\* get_stored_schema: scroll the version collection for the schema name with
\* limit 1, which gives the record with the lowest id, and take
\* response[0][0]; any exception gives None. fault "scroll": the scroll raises
GetStoredSchema(fault) ==
    LET matching == RecordsOfSchema(SchemaName)
    IN  /\ ~gs_result.called
        /\ ~sync_last.called
        /\ gs_result' =
              IF fault = "scroll" \/ VersionCollection \notin collections
                                 \/ matching = {}
              THEN [called |-> TRUE, fault |-> fault, found |-> FALSE]
              ELSE [called |-> TRUE, fault |-> fault, found |-> TRUE,
                    record |-> CHOOSE pt \in matching :
                                   \A q \in matching : pt.id <= q.id]
        /\ UNCHANGED <<clock, collections, version_points, schema_tables, sync_last,
                       SchemaFrame>>

\* the caller has the stored schema
GetStoredSchemaReturn ==
    /\ gs_result.called
    /\ gs_result' = [called |-> FALSE]
    /\ UNCHANGED <<clock, collections, version_points, schema_tables, sync_last,
                   SchemaFrame>>

InitSchema ==
    /\ clock = 0
    /\ collections = {}
    /\ version_points = {}
    /\ schema_tables \in {DltTables \cup d : d \in SUBSET DataTables}
    /\ sync_last = [called |-> FALSE]
    /\ gs_result = [called |-> FALSE]
    /\ StateIdle
    /\ JobIdle
    /\ DropIdle
    /\ RetryIdle
    /\ ConcIdle
    /\ StorIdle

NextSchema ==
    \/ \E only_tables \in SUBSET schema_tables,
          fault \in {"none", "lookup", "create"} :
            UpdateStoredSchema(only_tables, fault)
    \/ UpdateStoredSchemaReturn
    \/ \E d \in SUBSET DataTables : SchemaChange(d)
    \/ Tick
    \/ ClockStepsBack
    \/ OtherSchemaStored
    \/ \E fault \in {"none", "scroll"} : GetStoredSchema(fault)
    \/ GetStoredSchemaReturn

SpecSchema == InitSchema /\ [][NextSchema]_vars

\* C3: a call of update_stored_schema made while the version collection holds a
\* record with the schema's current stored hash creates no collection and
\* writes no version record
C3_NoOpWhenHashStored ==
    (sync_last.called /\ sync_last.had_record) =>
        (sync_last.creates = {} /\ sync_last.writes = 0)

\* the tables in scope of the last call that had no collection when it began
C13_MissingBefore ==
    {t \in (IF sync_last.only_tables = {} THEN sync_last.pre.tables
                                         ELSE sync_last.only_tables) :
        MakeQualifiedCollectionName(t) \notin sync_last.pre.collections}

\* the version records with the schema's hash at the time of the last call
C13_CurrentRecords ==
    {pt \in version_points :
        pt.version_hash = StoredVersionHash(sync_last.pre.tables)}

\* C13: when the lookup finds no version record with the current hash,
\* update_stored_schema creates a collection for exactly the tables in scope
\* that had none, and then appends exactly one version record with the current
\* hash to the records that were there (also when nothing had to be created);
\* when a creation fails, only tables that had no collection were created and
\* no version record is written
C13_CreateThenAppendOne ==
    (sync_last.called /\ ~sync_last.found) =>
        IF sync_last.creates # C13_MissingBefore
        THEN /\ sync_last.raised
             /\ sync_last.creates \subseteq C13_MissingBefore
             /\ version_points = sync_last.pre.version_points
        ELSE /\ sync_last.pre.version_points \subseteq version_points
             /\ Cardinality(version_points) =
                    Cardinality(sync_last.pre.version_points) + 1
             /\ Cardinality(C13_CurrentRecords \ sync_last.pre.version_points) = 1

\* C17: when the lookup by hash meets a missing version collection or an empty
\* response, the synchronization goes on as with no stored schema; when the
\* lookup raises a deeper error (network, authentication), the error reaches
\* the caller of update_stored_schema, no collection is created and no
\* version record is written
C17_LookupErrorPropagates ==
    sync_last.called =>
        /\ sync_last.fault = "lookup" =>
              /\ sync_last.raised
              /\ sync_last.creates = {}
              /\ sync_last.writes = 0
              /\ collections = sync_last.pre.collections
              /\ version_points = sync_last.pre.version_points
        /\ (sync_last.fault = "none" /\ ~sync_last.had_record) =>
              (~sync_last.found /\ sync_last.creates = C13_MissingBefore)

\* C18: version records are append-only: the record a call of
\* _create_point_no_vector inserts gets an identifier below those of all
\* records inserted before, so every record that was there is still there
C18_AppendOnlyIdentifiers ==
    \A pt \in version_points :
        /\ \A q \in version_points : q.inserted < pt.inserted => pt.id < q.id
        /\ \A n \in 1..pt.inserted : \E q \in version_points : q.inserted = n

\* C19: get_stored_schema returns the version record of the schema name that
\* was inserted last, and none when the schema name has no version record
C19_NewestSchemaReturned ==
    (gs_result.called /\ gs_result.fault = "none") =>
        IF RecordsOfSchema(SchemaName) = {}
        THEN ~gs_result.found
        ELSE /\ gs_result.found
             /\ gs_result.record.schema_name = SchemaName
             /\ gs_result.record.inserted = LastInserted(RecordsOfSchema(SchemaName))

\* C21: a call of update_stored_schema with a non-empty only_tables creates
\* collections only for tables named in only_tables; with only_tables empty
\* every table of the schema is in scope: only collections of schema tables are
\* created, and when the call writes its version record every table of the
\* schema has its collection
C21_OnlyTablesScope ==
    sync_last.called =>
        /\ sync_last.only_tables # {} =>
              /\ sync_last.creates \subseteq sync_last.only_tables
              /\ (collections \ sync_last.pre.collections) \subseteq
                     {MakeQualifiedCollectionName(t) : t \in sync_last.only_tables}
        /\ sync_last.only_tables = {} =>
              /\ (collections \ sync_last.pre.collections) \subseteq
                     {MakeQualifiedCollectionName(t) : t \in sync_last.pre.tables}
              /\ (~sync_last.found /\ ~sync_last.raised) =>
                    \A t \in sync_last.pre.tables :
                        MakeQualifiedCollectionName(t) \in collections

\* C21 witness: a call with a non-empty only_tables has created a collection
\* and a table of the schema outside only_tables is still without one
C21_Witness ==
    /\ sync_last.called
    /\ sync_last.only_tables # {}
    /\ sync_last.creates # {}
    /\ \E t \in sync_last.pre.tables \ sync_last.only_tables :
         MakeQualifiedCollectionName(t) \notin collections

\* C24: whenever the version collection holds a record with the hash of the
\* client's current schema, every table of that schema has its collection
C24_StoredHashMeansAllTables ==
    RecordsWithHash(StoredVersionHash(schema_tables)) # {} =>
        \A t \in schema_tables : MakeQualifiedCollectionName(t) \in collections

----------------------------------------------------------------------------
\* The load job: LoadQdrantJob

MaxFileLen == 2      \* records in a staged file
MaxUuid4 == 2        \* uuid.uuid4() calls followed

\* Python strings are sequences of characters; a value of a record is an int
\* or a str
IntVal(n) == [t |-> "int", v |-> n]
StrVal(chars) == [t |-> "str", v |-> chars]

IdValues == {IntVal(1), IntVal(2)}
NameValues == {StrVal(<<"a">>), StrVal(<<"b">>)}

\* the records of a staged file: one JSON object per line
Records == [id : IdValues, name : NameValues]
Files == UNION {[1..n -> Records] : n \in 0..MaxFileLen}

\* the table schemas a job may be started with: columns id and name, each with
\* its primary_key and unique hints
Columns ==
    {<<[name |-> "id", primary_key |-> ipk, unique |-> iu],
       [name |-> "name", primary_key |-> npk, unique |-> nu]>> :
        ipk \in BOOLEAN, iu \in BOOLEAN, npk \in BOOLEAN, nu \in {FALSE}}
    \cup
    {<<[name |-> "id", primary_key |-> FALSE, unique |-> iu],
       [name |-> "name", primary_key |-> FALSE, unique |-> TRUE]>> :
        iu \in BOOLEAN}

TableSchemas ==
    [write_disposition : {"append", "merge", "replace"}, columns : Columns]

\* the collection the jobs upload into
CollectionName == <<"u", "s", "e", "r", "s">>

\* get_columns_names_with_prop(table_schema, prop): the names of the columns
\* that carry the hint, in column order
ColumnHasProp(column, prop) ==
    IF prop = "primary_key" THEN column.primary_key ELSE column.unique

GetColumnsNamesWithProp(table_schema, prop) ==
    LET Has(column) == ColumnHasProp(column, prop)
        chosen == SelectSeq(table_schema.columns, Has)
    IN  [i \in 1..Len(chosen) |-> chosen[i].name]

\* an identifier choice that prefers the primary key whatever the disposition
ListUniqueIdentifiersAnyDisposition(table_schema) ==
    IF GetColumnsNamesWithProp(table_schema, "primary_key") # <<>>
    THEN GetColumnsNamesWithProp(table_schema, "primary_key")
    ELSE GetColumnsNamesWithProp(table_schema, "unique")

\* LoadQdrantJob._list_unique_identifiers
ListUniqueIdentifiers(table_schema) ==
    IF /\ table_schema.write_disposition = "merge"
       /\ GetColumnsNamesWithProp(table_schema, "primary_key") # <<>>
    THEN GetColumnsNamesWithProp(table_schema, "primary_key")
    ELSE GetColumnsNamesWithProp(table_schema, "unique")

\* str(n) for a natural number
Digits == <<"0", "1", "2", "3", "4", "5", "6", "7", "8", "9">>

RECURSIVE IntStr(_)
IntStr(n) ==
    IF n < 10 THEN <<Digits[n + 1]>>
    ELSE IntStr(n \div 10) \o <<Digits[(n % 10) + 1]>>

\* str(value)
Str(value) ==
    IF value.t = "int" THEN IntStr(value.v) ELSE value.v

\* "_".join(parts)
RECURSIVE JoinUnderscore(_)
JoinUnderscore(parts) ==
    IF Len(parts) = 0 THEN <<>>
    ELSE IF Len(parts) = 1 THEN parts[1]
    ELSE parts[1] \o <<"_">> \o JoinUnderscore(Tail(parts))

\* uuid.uuid5(uuid.NAMESPACE_DNS, name): a digest of the name, taken to be
\* free of collisions
Uuid5(name) ==
    [uuid5 |-> name]

\* the k-th call of uuid.uuid4(): a value no earlier call returned
Uuid4(k) ==
    [uuid4 |-> k]

\* an identity derived from every column of the record
GenerateUuidAllColumns(data, unique_identifiers, collection_name) ==
    Uuid5(collection_name \o JoinUnderscore(<<Str(data.id), Str(data.name)>>))

\* LoadQdrantJob._generate_uuid
GenerateUuid(data, unique_identifiers, collection_name) ==
    LET data_id == JoinUnderscore(
            [i \in 1..Len(unique_identifiers) |-> Str(data[unique_identifiers[i]])])
    IN  Uuid5(collection_name \o data_id)

\* the point ids LoadQdrantJob.__init__ computes for the lines of the file
PointIdsOfFile(file, unique_identifiers) ==
    [i \in 1..Len(file) |->
        IF unique_identifiers # <<>>
        THEN GenerateUuid(file[i], unique_identifiers, CollectionName)
        ELSE Uuid4(uuid4_calls + i)]

\* db_client.upload_collection(collection, ids, payload): the points are
\* upserted in the order of the file
RECURSIVE UploadCollection(_, _, _)
UploadCollection(points, ids, payloads) ==
    IF Len(ids) = 0 THEN points
    ELSE UploadCollection(
             UpsertPoint(points, [id |-> ids[1], payload |-> payloads[1]]),
             Tail(ids), Tail(payloads))

\* LoadQdrantJob.__init__ on a staged file; rerun says the file is the one the
\* job before uploaded
RunJob(file, rerun) ==
    LET unique_identifiers == ListUniqueIdentifiers(job_table)
        ids == PointIdsOfFile(file, unique_identifiers)
    IN  /\ unique_identifiers = <<>> => uuid4_calls + Len(file) <= MaxUuid4
        /\ coll_points' = UploadCollection(coll_points, ids, file)
        /\ uuid4_calls' = IF unique_identifiers = <<>>
                          THEN uuid4_calls + Len(file) ELSE uuid4_calls
        /\ job_last' = [state |-> "completed", file |-> file,
                        unique_identifiers |-> unique_identifiers, ids |-> ids,
                        rerun |-> rerun, count_before |-> Cardinality(coll_points)]
        /\ job_raised' = [raised |-> FALSE]
        /\ UNCHANGED <<job_table, JobFrame>>

\* QdrantClient.start_file_load: a job for a new staged file
StartFileLoad(file) ==
    /\ job_last.state = "none"
    /\ ~job_raised.raised
    /\ RunJob(file, FALSE)

\* the load step is repeated: a fresh job for the file of the job before
RetryFileLoad ==
    /\ job_last.state # "none"
    /\ RunJob(job_last.file, TRUE)

\* the terminal state was reported and the job is destroyed
JobDestroyed ==
    /\ job_last.state # "none"
    /\ job_last' = [state |-> "none"]
    /\ UNCHANGED <<job_table, coll_points, uuid4_calls, job_raised, JobFrame>>

\* QdrantClient.start_file_load when upload_collection raises after the first
\* `uploaded` records of the file were upserted: the exception leaves __init__
\* and start_file_load, and there is no job object
StartFileLoadRaises(file, uploaded) ==
    LET unique_identifiers == ListUniqueIdentifiers(job_table)
        ids == PointIdsOfFile(file, unique_identifiers)
    IN  /\ job_last.state = "none"
        /\ ~job_raised.raised
        /\ uploaded < Len(file)
        /\ unique_identifiers = <<>> => uuid4_calls + Len(file) <= MaxUuid4
        /\ coll_points' = UploadCollection(coll_points, SubSeq(ids, 1, uploaded),
                                           SubSeq(file, 1, uploaded))
        /\ uuid4_calls' = IF unique_identifiers = <<>>
                          THEN uuid4_calls + Len(file) ELSE uuid4_calls
        /\ job_last' = [state |-> "none"]
        /\ job_raised' = [raised |-> TRUE, file |-> file, ids |-> ids,
                          uploaded |-> uploaded]
        /\ UNCHANGED <<job_table, JobFrame>>

\* the caller of start_file_load has caught the exception
JobExceptionHandled ==
    /\ job_raised.raised
    /\ job_raised' = [raised |-> FALSE]
    /\ UNCHANGED <<job_table, coll_points, uuid4_calls, job_last, JobFrame>>

InitJob ==
    /\ job_table \in TableSchemas
    /\ coll_points = {}
    /\ uuid4_calls = 0
    /\ job_last = [state |-> "none"]
    /\ job_raised = [raised |-> FALSE]
    /\ clock = 0
    /\ StateIdle
    /\ SchemaIdle
    /\ DropIdle
    /\ RetryIdle
    /\ ConcIdle
    /\ StorIdle

NextJob ==
    \/ \E file \in Files : StartFileLoad(file)
    \/ RetryFileLoad
    \/ JobDestroyed
    \/ \E file \in Files, uploaded \in 0..MaxFileLen : StartFileLoadRaises(file, uploaded)
    \/ JobExceptionHandled

SpecJob == InitJob /\ [][NextJob]_vars

\* C16: a job whose state is completed has upserted every record of its file;
\* after an upload that failed unrecoverably the job's terminal state is
\* failed, not completed
C16_FailedUploadIsFailedJob ==
    /\ job_last.state = "completed" =>
          \A i \in 1..Len(job_last.file) :
              \E pt \in coll_points : pt.id = job_last.ids[i]
    /\ job_raised.raised => job_last.state = "failed"

\* the last line of the job's file that got the same point id as line i
LastWithSameId(i) ==
    CHOOSE j \in 1..Len(job_last.file) :
        /\ job_last.ids[j] = job_last.ids[i]
        /\ \A k \in 1..Len(job_last.file) : job_last.ids[k] = job_last.ids[i] => k <= j

\* whether two records agree on every identifier column of the job
SameIdentifierValues(r1, r2) ==
    \A c \in 1..Len(job_last.unique_identifiers) :
        r1[job_last.unique_identifiers[c]] = r2[job_last.unique_identifiers[c]]

\* C4: when a job has identifier columns, records with the same identifier
\* values get the same identity; after the job's upload the collection holds
\* exactly one point under the identity of each of its records, with the payload
\* of the last upload under that identity; and uploading the file of the job
\* before again leaves the number of points as it was
C4_IdempotentUpsert ==
    (job_last.state # "none" /\ job_last.unique_identifiers # <<>>) =>
        /\ \A i, j \in 1..Len(job_last.file) :
             SameIdentifierValues(job_last.file[i], job_last.file[j])
                 => job_last.ids[i] = job_last.ids[j]
        /\ \A i \in 1..Len(job_last.file) :
             /\ Cardinality({pt \in coll_points : pt.id = job_last.ids[i]}) = 1
             /\ \A pt \in coll_points :
                  pt.id = job_last.ids[i] =>
                      pt.payload = job_last.file[LastWithSameId(i)]
        /\ job_last.rerun => Cardinality(coll_points) = job_last.count_before

\* C4 witness: a retry job uploaded again a file whose two records have the same
\* identity and different field values, over a point of an earlier upload
C4_Witness ==
    /\ job_last.state # "none"
    /\ job_last.unique_identifiers # <<>>
    /\ job_last.rerun
    /\ Len(job_last.file) = 2
    /\ job_last.ids[1] = job_last.ids[2]
    /\ job_last.file[1] # job_last.file[2]
    /\ Cardinality(coll_points) = 1

\* the names of the columns of the job's table that carry a hint
C5_Flagged(prop) ==
    {job_table.columns[i].name : i \in
        {k \in 1..Len(job_table.columns) : ColumnHasProp(job_table.columns[k], prop)}}

C5_Chosen ==
    {job_last.unique_identifiers[i] : i \in 1..Len(job_last.unique_identifiers)}

\* C5: the identifier columns of a job are the primary-key columns when the
\* disposition is merge and there is a primary key, otherwise the unique
\* columns; every record gets a random identity exactly when the list is empty;
\* and with another disposition than merge a column is chosen only for its
\* unique hint
C5_IdentifierColumns ==
    job_last.state # "none" =>
        /\ C5_Chosen =
             IF job_table.write_disposition = "merge" /\ C5_Flagged("primary_key") # {}
             THEN C5_Flagged("primary_key")
             ELSE C5_Flagged("unique")
        /\ \A i \in 1..Len(job_last.ids) :
             (C5_Chosen = {}) <=> ("uuid4" \in DOMAIN job_last.ids[i])
        /\ job_table.write_disposition # "merge" => C5_Chosen \subseteq C5_Flagged("unique")

\* C5 witness: an append job on a table with a primary key and no unique column
\* gave its record a random identity
C5_Witness ==
    /\ job_last.state # "none"
    /\ job_table.write_disposition = "append"
    /\ C5_Flagged("primary_key") # {}
    /\ C5_Flagged("unique") = {}
    /\ Len(job_last.ids) > 0
    /\ "uuid4" \in DOMAIN job_last.ids[1]

----------------------------------------------------------------------------
\* The drop command: DropCommand and drop (dlt/pipeline/helpers.py)

\* the resources of the pipeline, each with one table of its name, and the
\* keys of the source state a JSON path can select
Resources == {"users", "orders"}
StatePaths == {"k"}

DropArgs ==
    [resources : SUBSET Resources, state_paths : SUBSET StatePaths,
     drop_all : BOOLEAN, state_only : BOOLEAN]

\* a plan that reads neither flag: the resources named are the selection and
\* their tables are dropped
DropResourcesIgnoringFlags(schema, state, args) ==
    LET tables_to_drop == schema \cap args.resources
        resource_states == state.resources \cap args.resources
        state_paths == state.paths \cap args.state_paths
    IN  [schema |-> schema \ tables_to_drop,
         state |-> [state EXCEPT !.resources = @ \ resource_states,
                                 !.paths = @ \ state_paths],
         info |-> [tables |-> tables_to_drop,
                   state_paths |-> state_paths,
                   resource_states |-> resource_states],
         dropped_tables |-> tables_to_drop]

\* drop_resources(schema, state, resources, state_paths, drop_all, state_only):
\* the schema without the tables of the selected resources, the state without
\* their resource states and without the selected paths, the dropped tables and
\* the info summary
DropResources(schema, state, args) ==
    LET selected == IF args.drop_all THEN Resources ELSE args.resources
        tables_to_drop == IF args.state_only THEN {} ELSE schema \cap selected
        resource_states == state.resources \cap selected
        state_paths == state.paths \cap args.state_paths
    IN  [schema |-> schema \ tables_to_drop,
         state |-> [state EXCEPT !.resources = @ \ resource_states,
                                 !.paths = @ \ state_paths],
         info |-> [tables |-> tables_to_drop,
                   state_paths |-> state_paths,
                   resource_states |-> resource_states],
         dropped_tables |-> tables_to_drop]

\* DropCommand.__init__ on a pipeline that has run
DropCommandInit(args) ==
    LET drop_result == DropResources(p_schema, p_state, args)
    IN  /\ ~cmd.built
        /\ drop_outcome = "none"
        /\ cmd' = [built |-> TRUE,
                   args |-> args,
                   schema |-> p_schema,
                   new_state |-> drop_result.state,
                   info |-> drop_result.info,
                   new_schema |-> drop_result.schema,
                   dropped_tables |-> drop_result.dropped_tables,
                   drop_tables |-> (~args.state_only /\ drop_result.dropped_tables # {}),
                   drop_state |-> (args.drop_all \/ args.resources # {}
                                       \/ args.state_paths # {})]
        /\ UNCHANGED <<pipelineVars, drop_calls, drop_outcome, drop_pre, drop_prev,
                       DropFrame>>

\* DropCommand.is_empty
IsEmpty(c) ==
    /\ c.info.tables = {}
    /\ c.info.state_paths = {}
    /\ c.info.resource_states = {}

\* a pending-data check made only when there is something to drop
RaisesOnPendingDataUnlessNoOp(c) ==
    p_pending /\ (c.drop_state \/ c.drop_tables)

\* if self.pipeline.has_pending_data: raise PipelineHasPendingDataException
RaisesOnPendingData(c) ==
    p_pending

\* what __call__ leaves behind when it ends before it saved anything
DropEndsEarly(calls, outcome) ==
    /\ drop_calls' = calls
    /\ drop_outcome' = outcome
    /\ UNCHANGED pipelineVars

\* pipeline._save_and_extract_state_and_schema(new_state, schema, load package
\* state update): the new schema and state are saved and extracted into a
\* pending load package
SavedPipeline(c) ==
    [schema |-> c.new_schema,
     state |-> [c.new_state EXCEPT !.force_extract = FALSE],
     package |-> [exists |-> TRUE, dropped_tables |-> c.dropped_tables]]

\* a recovery that discards the packages and marks the state but leaves the
\* schema of the drop in place
RecoveredPipelineNoRestore(c) ==
    [schema |-> c.new_schema,
     state |-> [SavedPipeline(c).state EXCEPT !.force_extract = TRUE],
     package |-> [exists |-> FALSE]]

\* except Exception: drop_pending_packages(), force_state_extract(state) under
\* managed_state, schemas.save_schema(self.schema)
RecoveredPipeline(c) ==
    [schema |-> c.schema,
     state |-> [SavedPipeline(c).state EXCEPT !.force_extract = TRUE],
     package |-> [exists |-> FALSE]]

\* DropCommand.__call__; fault names the step that raises: "none", "sync",
\* "save", "normalize" or "load"
DropCommandCall(fault) ==
    LET sync == <<"sync_destination">>
        saved == sync \o <<"_bump_version", "force_state_extract",
                           "_save_and_extract_state_and_schema">>
        normalized == saved \o <<"normalize">>
        loaded == normalized \o <<"load">>
        recovered == loaded \o <<"drop_pending_packages", "force_state_extract",
                                 "save_schema">>
    IN  /\ cmd.built
        /\ drop_outcome = "none"
        /\ drop_pre' = [entered |-> TRUE, schema |-> p_schema, state |-> p_state,
                        pending |-> p_pending, package |-> p_package]
        /\ IF RaisesOnPendingData(cmd)
           THEN DropEndsEarly(<<>>, "PipelineHasPendingDataException")
           ELSE IF fault = "sync"
           THEN DropEndsEarly(sync, "sync_error")
           ELSE IF ~cmd.drop_state /\ ~cmd.drop_tables
           THEN \* return  # Nothing to drop
                /\ drop_calls' = sync
                /\ drop_outcome' = "returned"
                /\ UNCHANGED pipelineVars
           ELSE IF fault = "save"
           THEN \* the save raises before anything was written
                /\ drop_calls' = saved
                /\ drop_outcome' = "save_error"
                /\ UNCHANGED pipelineVars
           ELSE IF fault = "normalize"
           THEN \* normalize raises outside the try block
                /\ drop_calls' = normalized
                /\ drop_outcome' = "normalize_error"
                /\ p_schema' = SavedPipeline(cmd).schema
                /\ p_state' = SavedPipeline(cmd).state
                /\ p_package' = SavedPipeline(cmd).package
                /\ p_pending' = TRUE
           ELSE IF fault = "load"
           THEN \* except Exception: drop_pending_packages, force_state_extract,
                \* save_schema(self.schema), raise
                /\ drop_calls' = recovered
                /\ drop_outcome' = "load_error"
                /\ p_schema' = RecoveredPipeline(cmd).schema
                /\ p_state' = RecoveredPipeline(cmd).state
                /\ p_package' = RecoveredPipeline(cmd).package
                /\ p_pending' = FALSE
           ELSE \* the package is loaded
                /\ drop_calls' = loaded
                /\ drop_outcome' = "returned"
                /\ p_schema' = SavedPipeline(cmd).schema
                /\ p_state' = SavedPipeline(cmd).state
                /\ p_package' = [exists |-> FALSE]
                /\ p_pending' = FALSE
        /\ UNCHANGED <<cmd, drop_prev, DropFrame>>

\* the plan a command computed: the names handed to the load package, the info
\* summary, the new schema and the new state (resource states and state keys)
PlanOf(c) ==
    [dropped_tables |-> c.dropped_tables,
     info |-> c.info,
     new_schema |-> c.new_schema,
     new_state |-> [resources |-> c.new_state.resources,
                    paths |-> c.new_state.paths]]

\* drop(pipeline, ...) is back at its caller, which keeps what the last drop
\* was when it succeeded, and its plan when its load failed; the command object
\* is gone
DropCommandDone ==
    /\ drop_outcome # "none"
    /\ cmd' = [built |-> FALSE]
    /\ drop_calls' = <<>>
    /\ drop_outcome' = "none"
    /\ drop_pre' = [entered |-> FALSE]
    /\ drop_prev' = IF drop_outcome = "returned"
                    THEN [done |-> TRUE, args |-> cmd.args,
                          tables_before |-> drop_pre.schema]
                    ELSE IF drop_outcome = "load_error"
                    THEN [done |-> FALSE, args |-> cmd.args, plan |-> PlanOf(cmd)]
                    ELSE [done |-> FALSE]
    /\ UNCHANGED <<pipelineVars, DropFrame>>

\* pipeline.extract of a resource: its table, its resource state and the
\* source state key, as pending data. drop() builds the command and invokes it
\* at once, so no extract comes between the two.
PipelineExtract(resource) ==
    /\ ~cmd.built
    /\ ~p_pending
    /\ p_schema' = p_schema \cup {resource}
    /\ p_state' = [p_state EXCEPT !.resources = @ \cup {resource},
                                  !.paths = StatePaths]
    /\ p_pending' = TRUE
    /\ drop_prev' = [done |-> FALSE]
    /\ UNCHANGED <<p_package, cmd, drop_calls, drop_outcome, drop_pre, DropFrame>>

\* pipeline.normalize and pipeline.load of the pending data
PipelineLoad ==
    /\ drop_outcome = "none"
    /\ p_pending
    /\ p_pending' = FALSE
    /\ p_package' = [exists |-> FALSE]
    /\ UNCHANGED <<p_schema, p_state, dropVars, DropFrame>>

InitDrop ==
    /\ p_schema = Resources
    /\ p_state = [resources |-> Resources, paths |-> StatePaths, force_extract |-> FALSE]
    /\ p_pending = FALSE
    /\ p_package = [exists |-> FALSE]
    /\ cmd = [built |-> FALSE]
    /\ drop_calls = <<>>
    /\ drop_outcome = "none"
    /\ drop_pre = [entered |-> FALSE]
    /\ drop_prev = [done |-> FALSE]
    /\ clock = 0
    /\ StateIdle
    /\ SchemaIdle
    /\ JobIdle
    /\ RetryIdle
    /\ ConcIdle
    /\ StorIdle

NextDrop ==
    \/ \E args \in DropArgs : DropCommandInit(args)
    \/ \E fault \in {"none", "sync", "save", "normalize", "load"} : DropCommandCall(fault)
    \/ DropCommandDone
    \/ \E resource \in Resources : PipelineExtract(resource)
    \/ PipelineLoad

SpecDrop == InitDrop /\ [][NextDrop]_vars

\* the steps of the apply phase among the calls made
ApplyCalls ==
    {drop_calls[i] : i \in 1..Len(drop_calls)} \cap
        {"_bump_version", "_save_and_extract_state_and_schema", "normalize", "load"}

\* whether the pipeline is as it was when __call__ was entered
PipelineAsEntered ==
    /\ p_schema = drop_pre.schema
    /\ p_state = drop_pre.state
    /\ p_pending = drop_pre.pending
    /\ p_package = drop_pre.package

EmptyArgs ==
    [resources |-> {}, state_paths |-> {}, drop_all |-> FALSE, state_only |-> FALSE]

\* C6: a DropCommand built with no resources, no state paths, drop_all false
\* and state_only false is empty, and invoking it makes no call to the
\* destination (not even a sync) and changes neither schema nor state
C6_EmptyCommandNoCalls ==
    (cmd.built /\ cmd.args = EmptyArgs) =>
        /\ IsEmpty(cmd)
        /\ drop_outcome # "none" => (drop_calls = <<>> /\ PipelineAsEntered)

OrdersArgs ==
    [resources |-> {"orders"}, state_paths |-> {}, drop_all |-> FALSE,
     state_only |-> FALSE]

\* C7: a drop of resources ["orders"] made right after the same drop succeeded
\* on a pipeline with tables users and orders has an empty plan, and invoking
\* it makes no step of the apply phase: no version bump, no load package, no
\* normalize and no load
C7_SecondDropIsNoOp ==
    (/\ cmd.built
     /\ cmd.args = OrdersArgs
     /\ drop_prev.done
     /\ drop_prev.args = OrdersArgs
     /\ drop_prev.tables_before = {"users", "orders"}) =>
        /\ IsEmpty(cmd)
        /\ cmd.dropped_tables = {}
        /\ drop_outcome # "none" => ApplyCalls = {}

\* C8: when the drop command fails in a step of the apply phase (the save,
\* normalize or load), the pipeline's saved schema is the schema from before
\* the drop and the failure reported is that of the step
C8_FailedDropKeepsSchema ==
    drop_outcome \in {"save_error", "normalize_error", "load_error"} =>
        /\ p_schema = drop_pre.schema
        /\ drop_outcome = "save_error" => drop_calls[Len(drop_calls)] =
               "_save_and_extract_state_and_schema"
        /\ drop_outcome = "normalize_error" => drop_calls[Len(drop_calls)] = "normalize"
        /\ drop_outcome = "load_error" => "load" \in ApplyCalls

\* C9: a drop command invoked while the pipeline has pending data raises
\* PipelineHasPendingDataException and has done nothing else: no call on the
\* pipeline or the destination, and schema, state and packages are as they were
C9_PendingDataRefused ==
    (drop_outcome # "none" /\ drop_pre.pending) =>
        /\ drop_outcome = "PipelineHasPendingDataException"
        /\ drop_calls = <<>>
        /\ PipelineAsEntered

\* C9 witness: a command with tables and state to drop was refused
C9_Witness ==
    /\ drop_outcome = "PipelineHasPendingDataException"
    /\ drop_pre.pending
    /\ cmd.drop_tables
    /\ cmd.drop_state

\* C9 witness for the empty plan: a command with nothing to drop was refused
C9_WitnessEmptyPlan ==
    /\ drop_outcome = "PipelineHasPendingDataException"
    /\ drop_pre.pending
    /\ IsEmpty(cmd)
    /\ ~cmd.drop_state
    /\ ~cmd.drop_tables

----------------------------------------------------------------------------
\* The retry predicate: retry_load (dlt/pipeline/helpers.py)

MaxChain == 3        \* exceptions in a chain: ex, ex.__context__, ...

\* the pipeline steps a step failure may name
PipelineSteps == {"extract", "normalize", "load"}

\* the kinds of exception the predicate tells apart
ExceptionKinds ==
    [type : {"PipelineStepFailed"}, step : PipelineSteps]
        \cup {[type |-> "TerminalException"], [type |-> "Exception"]}

\* an exception with its chain of __context__, outermost first
RECURSIVE ChainsOfLen(_)
ChainsOfLen(n) ==
    IF n = 0
    THEN {<<>>}
    ELSE {<<k>> \o c : k \in ExceptionKinds, c \in ChainsOfLen(n - 1)}

ExceptionChains == UNION {ChainsOfLen(n) : n \in 1..MaxChain}

\* isinstance(ex, PipelineStepFailed) and ex.step not in retry_on_pipeline_steps
StepNotRetried(steps, e) ==
    e.type = "PipelineStepFailed" /\ e.step \notin steps

\* a terminal check that walks the whole chain of contexts
TerminalAnywhere(ex) ==
    \E i \in 1..Len(ex) : ex[i].type = "TerminalException"

\* isinstance(ex, TerminalException) or (ex.__context__ is not None and
\* isinstance(ex.__context__, TerminalException))
TerminalOrContextTerminal(ex) ==
    \/ ex[1].type = "TerminalException"
    \/ (Len(ex) > 1 /\ ex[2].type = "TerminalException")

\* _retry_load(ex)
RetryLoad(steps, ex) ==
    IF StepNotRetried(steps, ex[1])
    THEN FALSE
    ELSE IF TerminalOrContextTerminal(ex)
    THEN FALSE
    ELSE TRUE

\* the retry condition is asked about the exception of a failed attempt
RetryLoadCall ==
    /\ ~retry_result.called
    /\ retry_result' = [called |-> TRUE, value |-> RetryLoad(retry_steps, retry_ex)]
    /\ UNCHANGED <<retry_steps, retry_ex, RetryFrame>>

InitRetry ==
    /\ retry_steps \in SUBSET PipelineSteps
    /\ retry_ex \in ExceptionChains
    /\ retry_result = [called |-> FALSE]
    /\ clock = 0
    /\ StateIdle
    /\ SchemaIdle
    /\ JobIdle
    /\ DropIdle
    /\ ConcIdle
    /\ StorIdle

NextRetry ==
    RetryLoadCall

SpecRetry == InitRetry /\ [][NextRetry]_vars

\* C10: the predicate returns false exactly when the failure is a step failure
\* whose step is not in steps, or the failure is a terminal error or has a
\* terminal error anywhere in its chain of causes; it returns true otherwise
C10_RetryExactlyWhenNotTerminal ==
    retry_result.called =>
        (retry_result.value = FALSE <=>
            (StepNotRetried(retry_steps, retry_ex[1]) \/ TerminalAnywhere(retry_ex)))

----------------------------------------------------------------------------
\* The flags of the drop command

\* C12: with state_only the command drops no tables (drop_tables is false, no
\* table leaves the schema and the load package is handed no dropped-table
\* name), whatever resources are named; with drop_all every resource of the
\* schema is selected, whatever the resources list holds: no resource state
\* is left, and without state_only no table is left
C12_StateOnlyAndDropAll ==
    cmd.built =>
        /\ cmd.args.state_only =>
              /\ ~cmd.drop_tables
              /\ cmd.dropped_tables = {}
              /\ cmd.info.tables = {}
              /\ cmd.new_schema = cmd.schema
              /\ drop_outcome = "normalize_error" =>
                     (p_package.exists /\ p_package.dropped_tables = {})
        /\ cmd.args.drop_all =>
              /\ cmd.drop_state
              /\ cmd.new_state.resources = {}
              /\ ~cmd.args.state_only =>
                     (cmd.new_schema = {} /\ cmd.dropped_tables = cmd.schema)

\* C12 witness: a command with state_only and drop_all and an empty resources
\* list, built on a pipeline with both tables, selected every resource state,
\* dropped no table and has handed its load package over
C12_Witness ==
    /\ cmd.built
    /\ cmd.args.state_only
    /\ cmd.args.drop_all
    /\ cmd.args.resources = {}
    /\ cmd.schema = Resources
    /\ cmd.info.resource_states = Resources
    /\ p_package.exists
    /\ drop_outcome = "normalize_error"

----------------------------------------------------------------------------
\* Recovery of a drop whose load failed

\* the calls __call__ made after pipeline.load
CallsAfterLoad ==
    IF \E i \in 1..Len(drop_calls) : drop_calls[i] = "load"
    THEN SubSeq(drop_calls,
                1 + CHOOSE i \in 1..Len(drop_calls) : drop_calls[i] = "load",
                Len(drop_calls))
    ELSE <<>>

\* C14: when the load of a drop fails, the command has, in this order,
\* discarded the pending packages, marked the state for extraction and saved
\* the schema cloned before the drop, and the failure raised is the load's;
\* when the command returns, it has made no call after the load
C14_RecoveryInOrder ==
    /\ drop_outcome = "load_error" =>
          /\ CallsAfterLoad =
                 <<"drop_pending_packages", "force_state_extract", "save_schema">>
          /\ ~p_package.exists
          /\ ~p_pending
          /\ p_state.force_extract
          /\ p_schema = cmd.schema
    /\ drop_outcome \in {"returned", "sync_error", "save_error", "normalize_error",
                         "PipelineHasPendingDataException"} =>
          CallsAfterLoad = <<>>

\* C14 witness: the load of a drop that removes a table failed and the schema
\* with the table is the saved one again
C14_Witness ==
    /\ drop_outcome = "load_error"
    /\ cmd.drop_tables
    /\ cmd.new_schema # cmd.schema
    /\ p_schema = cmd.schema
    /\ Len(CallsAfterLoad) = 3

\* whether the last drop on the pipeline as it is failed in its load and recovered
LastDropFailedInLoad ==
    ~drop_prev.done /\ "plan" \in DOMAIN drop_prev

\* C15: a DropCommand built with the arguments of a drop whose load failed and
\* whose recovery ran, on the pipeline as the recovery left it, computes the
\* plan of the first: the same dropped tables, info, new schema and new state
C15_SamePlanAfterRecovery ==
    (cmd.built /\ LastDropFailedInLoad /\ cmd.args = drop_prev.args) =>
        PlanOf(cmd) = drop_prev.plan

----------------------------------------------------------------------------
\* Two load jobs upload into the same collection at the same time

\* the tables the two jobs load: a merge table with primary key id, an append
\* table with unique column name, and an append table with no hint
ConcTables ==
    {[write_disposition |-> "merge",
      columns |-> <<[name |-> "id", primary_key |-> TRUE, unique |-> FALSE],
                    [name |-> "name", primary_key |-> FALSE, unique |-> FALSE]>>],
     [write_disposition |-> "append",
      columns |-> <<[name |-> "id", primary_key |-> FALSE, unique |-> FALSE],
                    [name |-> "name", primary_key |-> FALSE, unique |-> TRUE]>>],
     [write_disposition |-> "append",
      columns |-> <<[name |-> "id", primary_key |-> FALSE, unique |-> FALSE],
                    [name |-> "name", primary_key |-> FALSE, unique |-> FALSE]>>]}

\* the point ids a job computes for its file when `calls` calls of uuid.uuid4()
\* were made before
ConcPointIds(file, unique_identifiers, calls) ==
    [i \in 1..Len(file) |->
        IF unique_identifiers # <<>>
        THEN GenerateUuid(file[i], unique_identifiers, CollectionName)
        ELSE Uuid4(calls + i)]

\* the file an earlier job has loaded into the collection
EarlierFiles ==
    {<<>>, <<[id |-> IntVal(2), name |-> StrVal(<<"b">>)]>>}

\* start_file_load for two files of the table, on two threads: both jobs have
\* read their file and computed their point ids
ConcStart ==
    /\ ~conc.started
    /\ \E file1, file2 \in Files :
         LET unique_identifiers == ListUniqueIdentifiers(job_table)
         IN  /\ conc' = [started |-> TRUE,
                         before |-> coll_points,
                         jobs |-> <<[file |-> file1,
                                     ids |-> ConcPointIds(file1, unique_identifiers,
                                                          uuid4_calls),
                                     next |-> 1],
                                    [file |-> file2,
                                     ids |-> ConcPointIds(file2, unique_identifiers,
                                                          uuid4_calls + Len(file1)),
                                     next |-> 1]>>]
             /\ uuid4_calls' = IF unique_identifiers = <<>>
                               THEN uuid4_calls + Len(file1) + Len(file2)
                               ELSE uuid4_calls
    /\ UNCHANGED <<job_table, coll_points, job_last, job_raised, ConcFrame>>

\* upload_collection of job j upserts the next record of its file
ConcUpsert(j) ==
    /\ conc.started
    /\ conc.jobs[j].next <= Len(conc.jobs[j].file)
    /\ coll_points' = UpsertPoint(coll_points,
           [id |-> conc.jobs[j].ids[conc.jobs[j].next],
            payload |-> conc.jobs[j].file[conc.jobs[j].next]])
    /\ conc' = [conc EXCEPT !.jobs[j].next = @ + 1]
    /\ UNCHANGED <<job_table, uuid4_calls, job_last, job_raised, ConcFrame>>

InitConc ==
    /\ job_table \in ConcTables
    /\ \E earlier \in EarlierFiles :
         /\ coll_points = UploadCollection({},
                ConcPointIds(earlier, ListUniqueIdentifiers(job_table), 0), earlier)
         /\ uuid4_calls = IF ListUniqueIdentifiers(job_table) = <<>>
                          THEN Len(earlier) ELSE 0
    /\ job_last = [state |-> "none"]
    /\ job_raised = [raised |-> FALSE]
    /\ conc = [started |-> FALSE]
    /\ clock = 0
    /\ StateIdle
    /\ SchemaIdle
    /\ DropIdle
    /\ RetryIdle
    /\ StorIdle

NextConc ==
    \/ ConcStart
    \/ \E j \in 1..2 : ConcUpsert(j)

SpecConc == InitConc /\ [][NextConc]_vars

\* the point ids of job j, and the payload job j uploaded last under an id
ConcIdsOf(j) ==
    {conc.jobs[j].ids[i] : i \in 1..Len(conc.jobs[j].file)}

ConcLastPayload(j, id) ==
    conc.jobs[j].file[CHOOSE i \in 1..Len(conc.jobs[j].file) :
        /\ conc.jobs[j].ids[i] = id
        /\ \A k \in 1..Len(conc.jobs[j].file) : conc.jobs[j].ids[k] = id => k <= i]

ConcBothDone ==
    /\ conc.started
    /\ \A j \in 1..2 : conc.jobs[j].next = Len(conc.jobs[j].file) + 1

\* C20: while two jobs upload at the same time the collection never holds two
\* records of one identity and keeps every record of an identity neither job
\* uploads; when both are done it holds, for each identity uploaded, exactly one
\* record, with the payload one of the two jobs uploaded last under it, and no
\* record of an identity that was neither there before nor uploaded
C20_ConcurrentUpsertsLastWriteWins ==
    conc.started =>
        /\ \A pt, q \in coll_points : pt.id = q.id => pt = q
        /\ \A pt \in conc.before :
             pt.id \notin ConcIdsOf(1) \cup ConcIdsOf(2) => pt \in coll_points
        /\ ConcBothDone =>
             /\ \A id \in ConcIdsOf(1) \cup ConcIdsOf(2) :
                  /\ Cardinality({pt \in coll_points : pt.id = id}) = 1
                  /\ \A pt \in coll_points : pt.id = id =>
                       pt.payload \in {ConcLastPayload(j, id) :
                                          j \in {k \in 1..2 : id \in ConcIdsOf(k)}}
             /\ {pt.id : pt \in coll_points} =
                    {pt.id : pt \in conc.before} \cup ConcIdsOf(1) \cup ConcIdsOf(2)

\* C20 witness: both jobs are done, they uploaded different payloads under one
\* identity, the record of the first job is the one that stayed, and a record
\* of another identity from an earlier load is still there
C20_Witness ==
    /\ ConcBothDone
    /\ \E id \in ConcIdsOf(1) \cap ConcIdsOf(2) :
         /\ ConcLastPayload(1, id) # ConcLastPayload(2, id)
         /\ [id |-> id, payload |-> ConcLastPayload(1, id)] \in coll_points
    /\ \E pt \in conc.before :
         pt.id \notin ConcIdsOf(1) \cup ConcIdsOf(2) /\ pt \in coll_points

----------------------------------------------------------------------------
\* The identity of a record over values of both JSON types and with "_" inside

\* json.loads gives an int or a str for a value; strings may hold the "_" that
\* _generate_uuid joins with
IdentValues ==
    {IntVal(1), StrVal(<<"1">>), StrVal(<<"a">>), StrVal(<<"c">>),
     StrVal(<<"a", "_", "b">>), StrVal(<<"b", "_", "c">>)}

IdentRecords == [id : IdentValues, name : IdentValues]

\* staged files of two records
IdentFiles == [1..2 -> IdentRecords]

\* the first file loaded into the collection of the table
FirstFileLoad(file) ==
    /\ coll_points = {}
    /\ StartFileLoad(file)

InitIdentity ==
    /\ job_table \in TableSchemas
    /\ coll_points = {}
    /\ uuid4_calls = 0
    /\ job_last = [state |-> "none"]
    /\ job_raised = [raised |-> FALSE]
    /\ clock = 0
    /\ StateIdle
    /\ SchemaIdle
    /\ DropIdle
    /\ RetryIdle
    /\ ConcIdle
    /\ StorIdle

NextIdentity ==
    \/ \E file \in IdentFiles : FirstFileLoad(file)
    \/ JobDestroyed

SpecIdentity == InitIdentity /\ [][NextIdentity]_vars

\* C23: when a job has identifier columns, two records of its file whose
\* identifier values differ get different identities, and after the upload the
\* collection holds a point with the payload of each of them
C23_IdentityInjective ==
    (job_last.state # "none" /\ job_last.unique_identifiers # <<>>) =>
        \A i, j \in 1..Len(job_last.file) :
            ~SameIdentifierValues(job_last.file[i], job_last.file[j]) =>
                /\ job_last.ids[i] # job_last.ids[j]
                /\ \E pt \in coll_points : pt.payload = job_last.file[i]

----------------------------------------------------------------------------
\* The dataset of a client: QdrantClient.initialize_storage

\* names are sequences of name parts; config.normalize_dataset_name gives the
\* dataset name, which may be empty
DatasetNames == {<<>>, <<"dataset">>}

\* table names that truncate_tables may list
InitTables == {<<"users">>, <<"dataset", "_", "users">>}

\* truncate_tables is an iterable: the lists of distinct table names
TruncateLists ==
    ({<<>>} \cup {<<t>> : t \in InitTables}
           \cup {<<t, u>> : t \in InitTables, u \in InitTables})
        \ {<<t, t>> : t \in InitTables}

\* _make_qualified_collection_name for a client of dataset_name
QualifiedName(dataset_name, table_name) ==
    IF dataset_name # <<>> THEN dataset_name \o <<"_">> \o table_name
    ELSE table_name

\* sentinel_collection: self.dataset_name or "DltSentinelCollection"
SentinelCollection(dataset_name) ==
    IF dataset_name # <<>> THEN dataset_name ELSE <<"DltSentinelCollection">>

\* _collection_exists(table_name, qualify_table_name) on storage st
CollectionExists(st, table_name, qualify_table_name) ==
    (IF qualify_table_name THEN QualifiedName(st.dataset_name, table_name)
                           ELSE table_name) \in st.exists

\* is_storage_initialized
IsStorageInitialized(st) ==
    CollectionExists(st, SentinelCollection(st.dataset_name), FALSE)

\* db_client.delete_collection followed by _create_collection: the collection
\* exists and holds no point
DeleteAndCreate(st, name) ==
    [st EXCEPT !.exists = @ \cup {name}, !.nonempty = @ \ {name}]

\* the loop of initialize_storage over truncate_tables: the qualified name is
\* handed to _collection_exists, which qualifies its argument once more
RECURSIVE TruncateTables(_, _)
TruncateTables(st, truncate_tables) ==
    IF truncate_tables = <<>> THEN st
    ELSE LET qualified_table_name ==
                 QualifiedName(st.dataset_name, Head(truncate_tables))
         IN  IF CollectionExists(st, qualified_table_name, TRUE)
             THEN TruncateTables(st, Tail(truncate_tables))
             ELSE TruncateTables(DeleteAndCreate(st, qualified_table_name),
                                 Tail(truncate_tables))

\* initialize_storage(truncate_tables)
InitializeStorage(truncate_tables) ==
    /\ ~init_last.called
    /\ storage' =
          IF ~IsStorageInitialized(storage)
          THEN \* _create_sentinel_collection
               [storage EXCEPT !.exists = @ \cup {SentinelCollection(storage.dataset_name)}]
          ELSE IF truncate_tables # <<>>
          THEN TruncateTables(storage, truncate_tables)
          ELSE storage
    /\ init_last' = [called |-> TRUE, truncate_tables |-> truncate_tables,
                     pre |-> storage]
    /\ UNCHANGED StorFrame

\* initialize_storage is back at its caller
InitializeStorageReturn ==
    /\ init_last.called
    /\ init_last' = [called |-> FALSE]
    /\ UNCHANGED <<storage, StorFrame>>

\* update_stored_schema creates the collection of a table of the dataset
StorCreateCollection(table_name) ==
    /\ ~init_last.called
    /\ ~CollectionExists(storage, table_name, TRUE)
    /\ storage' = [storage EXCEPT
                      !.exists = @ \cup {QualifiedName(storage.dataset_name, table_name)}]
    /\ UNCHANGED <<init_last, StorFrame>>

\* a load job uploads points into the collection of a table
StorUpload(table_name) ==
    /\ ~init_last.called
    /\ CollectionExists(storage, table_name, TRUE)
    /\ QualifiedName(storage.dataset_name, table_name) \notin storage.nonempty
    /\ storage' = [storage EXCEPT
                      !.nonempty = @ \cup {QualifiedName(storage.dataset_name, table_name)}]
    /\ UNCHANGED <<init_last, StorFrame>>

InitStorage ==
    /\ storage \in [dataset_name : DatasetNames, exists : {{}}, nonempty : {{}}]
    /\ init_last = [called |-> FALSE]
    /\ clock = 0
    /\ StateIdle
    /\ SchemaIdle
    /\ JobIdle
    /\ DropIdle
    /\ RetryIdle
    /\ ConcIdle

NextStorage ==
    \/ \E truncate_tables \in TruncateLists : InitializeStorage(truncate_tables)
    \/ InitializeStorageReturn
    \/ \E t \in InitTables : StorCreateCollection(t)
    \/ \E t \in InitTables : StorUpload(t)

SpecStorage == InitStorage /\ [][NextStorage]_vars

\* the collections of the tables the last call of initialize_storage listed
C25_Listed ==
    {QualifiedName(storage.dataset_name, init_last.truncate_tables[i]) :
        i \in 1..Len(init_last.truncate_tables)}

\* C25: a call of initialize_storage on a storage that is not initialized
\* creates the sentinel collection and nothing else; on an initialized storage
\* every listed table that had a collection has one after the call, with no
\* point in it, and no collection of a table that is not listed is deleted,
\* created or emptied
C25_InitializeStorage ==
    init_last.called =>
        IF ~IsStorageInitialized(init_last.pre)
        THEN /\ storage.exists = init_last.pre.exists
                     \cup {SentinelCollection(storage.dataset_name)}
             /\ storage.nonempty = init_last.pre.nonempty
        ELSE /\ \A name \in C25_Listed \cap init_last.pre.exists :
                  name \in storage.exists /\ name \notin storage.nonempty
             /\ storage.exists \ C25_Listed = init_last.pre.exists \ C25_Listed
             /\ storage.nonempty \ C25_Listed = init_last.pre.nonempty \ C25_Listed

====
